---- MODULE Spec2Model ----
(***************************************************************************)
(* Model of the USDA NASS QuickStats fetcher (scripts/fetch_ag_data_robust *)
(* .py) and of the disclosure reconciler its test script exercises.        *)
(*                                                                         *)
(* Four specifications share the variables below:                          *)
(*   SpecReconcile  process_county_records applied to a list of records    *)
(*   SpecPipeline   main after the fetch loop: merge, clean, rollup, save  *)
(*   SpecFetch      fetch_metric_multistate and fetch_with_retry           *)
(*   SpecRun        a whole run: main, its fetches, KeyboardInterrupt      *)
(* A specification leaves the variables it does not use at their idle      *)
(* values.                                                                 *)
(***************************************************************************)
EXTENDS Bags, FiniteSets, Integers, Sequences, TLC

VARIABLES
    \* --- process_county_records
    records,        \* the list of raw records handed to the reconciler
    rec_result,     \* its return value <<value, is_estimated>>, or NoResult
    \* --- main, after the fetch loop
    dfs,            \* per catalog metric, the table fetch_metric_multistate returned
    frames,         \* main's list of renamed, non-empty tables
    merged,         \* main's merged table
    output,         \* the contents of ag_data.csv, or NoFile
    pipe_pc,        \* main's position
    \* --- fetch_metric_multistate and fetch_with_retry
    metric_name,    \* the metric fetch_metric_multistate was called for
    cache,          \* per metric, the cache file's contents, or NoFile
    fm_pc,          \* the position of fetch_metric_multistate
    state_idx,      \* the index in TARGET_STATES of the loop's state
    attempt,        \* the index of the retry loop's iteration
    requests,       \* HTTP requests issued by the current fetch_with_retry call
    responses,      \* the responses that call has received, in order
    data,           \* what the last fetch_with_retry call returned
    slept,          \* seconds slept since the last HTTP request
    all_states_data, states_fetched, states_failed,
    fm_result,      \* what fetch_metric_multistate returned, or NoResult
    exception,      \* the exception fetch_metric_multistate raised, or None
    calls,          \* the <<metric, state>> fetch_with_retry was called for
    \* --- main's loop over METRICS
    idx,            \* the position in METRICS of the loop's metric
    fetch_stats     \* main's list of per-metric statistics

reconcileVars == <<records, rec_result>>

pipelineVars == <<dfs, frames, merged, output, pipe_pc>>

fetchVars ==
    <<metric_name, cache, fm_pc, state_idx, attempt, requests, responses,
      data, slept, all_states_data, states_fetched, states_failed,
      fm_result, exception, calls>>

runVars == <<idx, fetch_stats>>

vars == <<reconcileVars, pipelineVars, fetchVars, runVars>>

(***************************************************************************)
(* Text.  A Python str is a sequence of one-character strings.             *)
(***************************************************************************)

Whitespace == {" "}

Digits == {"0", "1", "2", "3", "4", "5", "6", "7", "8", "9"}

DigitValue(c) ==
    CASE c = "0" -> 0 [] c = "1" -> 1 [] c = "2" -> 2 [] c = "3" -> 3
      [] c = "4" -> 4 [] c = "5" -> 5 [] c = "6" -> 6 [] c = "7" -> 7
      [] c = "8" -> 8 [] c = "9" -> 9

\* Cell values: a str, a number, NaN (pandas' absent), None (Python's absent).
Str(s) == [kind |-> "str", text |-> s]
Num(n) == [kind |-> "num", num |-> n]
NaN == [kind |-> "nan"]
None == [kind |-> "none"]

RECURSIVE LStrip(_)
LStrip(s) ==
    IF s # <<>> /\ Head(s) \in Whitespace THEN LStrip(Tail(s)) ELSE s

RECURSIVE RStrip(_)
RStrip(s) ==
    IF s # <<>> /\ s[Len(s)] \in Whitespace
    THEN RStrip(SubSeq(s, 1, Len(s) - 1))
    ELSE s

\* str.strip()
Strip(s) == RStrip(LStrip(s))

\* str.replace(",", "")
IsNotComma(c) == c # ","
RemoveCommas(s) == SelectSeq(s, IsNotComma)

AllDigits(s) == s # <<>> /\ \A i \in 1..Len(s) : s[i] \in Digits

RECURSIVE DecimalValue(_)
DecimalValue(s) ==
    IF s = <<>> THEN 0
    ELSE 10 * DecimalValue(SubSeq(s, 1, Len(s) - 1)) + DigitValue(s[Len(s)])

(***************************************************************************)
(* Disclosure reconciler: process_county_records(records) returns          *)
(* (value, is_estimated).  A record carries domaincat_desc and Value.      *)
(***************************************************************************)

AGGREGATE == "NOT SPECIFIED"

NoResult == <<>>

\* A record's number: thousands separators and surrounding whitespace are
\* tolerated; a suppression marker or malformed text gives None.
parse_value(text) ==
    LET t == RemoveCommas(Strip(text))
    IN  IF AllDigits(t) THEN Num(DecimalValue(t)) ELSE None

IsGenuine(rec) == parse_value(rec.Value) # None

IsAggregate(rec) == rec.domaincat_desc = AGGREGATE

IsSubcategory(rec) == ~IsAggregate(rec)

IsGenuineAggregate(rec) == IsAggregate(rec) /\ IsGenuine(rec)

IsGenuineSubcategory(rec) == ~IsAggregate(rec) /\ IsGenuine(rec)

RECURSIVE SumValues(_)
SumValues(recs) ==
    IF recs = <<>> THEN 0
    ELSE parse_value(Head(recs).Value).num + SumValues(Tail(recs))

\* Every genuine aggregate wins and the subcategories are added to it.
process_county_records_sum_all(recs) ==
    LET genuine == SelectSeq(recs, IsGenuine)
    IN  IF genuine = <<>> THEN <<None, FALSE>>
        ELSE <<Num(SumValues(genuine)),
               SelectSeq(recs, IsGenuineAggregate) = <<>> >>

\* One unusable subcategory makes the estimate unusable.
process_county_records_strict(recs) ==
    LET totals == SelectSeq(recs, IsGenuineAggregate)
        parts == SelectSeq(recs, IsGenuineSubcategory)
        subs == SelectSeq(recs, IsSubcategory)
    IN  IF totals # <<>> THEN <<parse_value(Head(totals).Value), FALSE>>
        ELSE IF parts # <<>> /\ parts = subs
             THEN <<Num(SumValues(parts)), TRUE>>
             ELSE <<None, FALSE>>

\* A zero result is reported as no value.
process_county_records_falsy(recs) ==
    LET totals == SelectSeq(recs, IsGenuineAggregate)
        parts == SelectSeq(recs, IsGenuineSubcategory)
        value == IF totals # <<>> THEN parse_value(Head(totals).Value).num
                 ELSE SumValues(parts)
    IN  IF (totals = <<>> /\ parts = <<>>) \/ value = 0
        THEN <<None, FALSE>>
        ELSE <<Num(value), totals = <<>> >>

process_county_records(recs) ==
    LET totals == SelectSeq(recs, IsGenuineAggregate)
        parts == SelectSeq(recs, IsGenuineSubcategory)
    IN  IF totals # <<>> THEN <<parse_value(Head(totals).Value), FALSE>>
        ELSE IF parts # <<>> THEN <<Num(SumValues(parts)), TRUE>>
        ELSE <<None, FALSE>>

\* Inputs of the reconciler.
MaxRecords == 3

SUBCATEGORY == "INVENTORY OF BEEF COWS: (1 TO 9 HEAD)"

RecordTexts ==
    { <<"(", "D", ")">>,
      <<"5", ",", "0", "0", "0">>,
      <<" ", "2", ",", "5", "0", "0", " ">>,
      <<"0">>,
      <<"1", " ", "2">> }

RawRecords ==
    [domaincat_desc : {AGGREGATE, SUBCATEGORY}, Value : RecordTexts]

RecordLists == UNION {[1..n -> RawRecords] : n \in 0..MaxRecords}

\* Idle values of the variables a specification does not use.
NoFile == <<>>

IdlePipeline ==
    /\ dfs = <<>>
    /\ frames = <<>>
    /\ merged = <<>>
    /\ output = NoFile
    /\ pipe_pc = "idle"

IdleReconcile ==
    /\ records = <<>>
    /\ rec_result = NoResult

IdleFetch ==
    /\ metric_name = ""
    /\ cache = <<>>
    /\ fm_pc = "idle"
    /\ state_idx = 0
    /\ attempt = 0
    /\ requests = 0
    /\ responses = <<>>
    /\ data = None
    /\ slept = 0
    /\ all_states_data = <<>>
    /\ states_fetched = <<>>
    /\ states_failed = <<>>
    /\ fm_result = NoResult
    /\ exception = None
    /\ calls = <<>>

IdleRun ==
    /\ idx = 0
    /\ fetch_stats = <<>>

InitReconcile ==
    /\ records \in RecordLists
    /\ rec_result = NoResult
    /\ IdlePipeline
    /\ IdleFetch
    /\ IdleRun

Reconcile ==
    /\ rec_result = NoResult
    /\ rec_result' = process_county_records(records)
    /\ UNCHANGED <<records, pipelineVars, fetchVars, runVars>>

NextReconcile == Reconcile

SpecReconcile == InitReconcile /\ [][NextReconcile]_vars

(***************************************************************************)
(* Claims about the reconciler (SpecReconcile).                            *)
(***************************************************************************)

Returned == rec_result # NoResult

HasGenuineAggregate ==
    \E i \in 1..Len(records) : IsGenuineAggregate(records[i])

HasGenuineSubcategory ==
    \E i \in 1..Len(records) : IsGenuineSubcategory(records[i])

\* The contribution of record i to an estimate: its number when it is a
\* genuine subcategory record, nothing otherwise.
Contribution(i) ==
    IF IsGenuineSubcategory(records[i])
    THEN parse_value(records[i].Value).num
    ELSE 0

RECURSIVE ContributionsUpTo(_)
ContributionsUpTo(n) ==
    IF n = 0 THEN 0 ELSE ContributionsUpTo(n - 1) + Contribution(n)

Aggregate(text) == [domaincat_desc |-> AGGREGATE, Value |-> text]

Subcategory(text) == [domaincat_desc |-> SUBCATEGORY, Value |-> text]

\* C1: whenever the list holds an aggregate record with a genuine number, the
\* reconciler returns the number of a genuine aggregate record with
\* estimated = false, whatever subcategory records are present; an aggregate
\* of 5,000 beside a subcategory of 2,500 gives 5000, not 7500.
C1_AggregatePrecedence ==
    (Returned /\ HasGenuineAggregate) =>
        /\ rec_result[2] = FALSE
        /\ \E i \in 1..Len(records) :
              /\ IsGenuineAggregate(records[i])
              /\ rec_result[1] = parse_value(records[i].Value)
        /\ (records = << Subcategory(<<" ", "2", ",", "5", "0", "0", " ">>),
                         Aggregate(<<"5", ",", "0", "0", "0">>) >>
              => rec_result[1] = Num(5000))

\* C1 witness: a genuine aggregate returned beside a genuine subcategory and
\* a suppressed one.
C1_Witness ==
    /\ Returned
    /\ HasGenuineAggregate
    /\ HasGenuineSubcategory
    /\ \E i \in 1..Len(records) :
          IsSubcategory(records[i]) /\ ~IsGenuine(records[i])
    /\ rec_result[2] = FALSE

\* C2: when no aggregate record carries a genuine number and at least one
\* subcategory record does, the reconciler returns the sum of the genuine
\* subcategory numbers with estimated = true; suppressed or malformed
\* records add nothing.  (D) beside 5,000 and 2,500 gives 7500.
C2_EstimateIsSumOfGenuineParts ==
    (Returned /\ ~HasGenuineAggregate /\ HasGenuineSubcategory) =>
        /\ rec_result = <<Num(ContributionsUpTo(Len(records))), TRUE>>
        /\ (records = << Aggregate(<<"(", "D", ")">>),
                         Subcategory(<<"5", ",", "0", "0", "0">>),
                         Subcategory(<<" ", "2", ",", "5", "0", "0", " ">>) >>
              => rec_result[1] = Num(7500))

\* C2 witness: an estimate made beside a suppressed aggregate and an
\* unusable subcategory record.
C2_Witness ==
    /\ Returned
    /\ rec_result[2] = TRUE
    /\ rec_result[1].num > 0
    /\ \E i \in 1..Len(records) :
          IsAggregate(records[i]) /\ ~IsGenuine(records[i])
    /\ \E i \in 1..Len(records) :
          IsSubcategory(records[i]) /\ ~IsGenuine(records[i])

\* C3: the reconciler returns no value exactly when no record of the list
\* yields a number, and then with estimated = false; a list whose genuine
\* values are all zero gives the number 0.
C3_NoValueOnlyWhenNothingUsable ==
    Returned =>
        /\ rec_result[1] = None <=>
              (\A i \in 1..Len(records) : ~IsGenuine(records[i]))
        /\ rec_result[1] = None => rec_result[2] = FALSE
        /\ (records = << Aggregate(<<"(", "D", ")">>), Subcategory(<<"0">>) >>
              => rec_result = <<Num(0), TRUE>>)

\* C3 witness: a non-empty list of unusable records gave no value.
C3_Witness ==
    /\ Returned
    /\ Len(records) >= 2
    /\ rec_result = <<None, FALSE>>

(***************************************************************************)
(* Tables.  A DataFrame is its column names, in order, and its rows, in    *)
(* order; a row maps every column name to a cell.                          *)
(***************************************************************************)

\* The metric catalog: three of the entries of METRICS, in catalog order.
METRICS ==
    << "farms", "grass_seed_bentgrass_acres", "grass_seed_fescue_acres" >>

MetricNames == {METRICS[i] : i \in 1..Len(METRICS)}

\* The join key of main's merge.
KeyColumns == <<"state_name", "county_name", "year">>

SeqToSet(s) == {s[i] : i \in 1..Len(s)}

DataFrame(cols, rows) == [columns |-> cols, rows |-> rows]

\* pd.DataFrame()
EmptyDataFrame == DataFrame(<<>>, <<>>)

\* df.empty
IsEmpty(df) == df.rows = <<>> \/ df.columns = <<>>

KeyOf(row) == <<row["state_name"], row["county_name"], row["year"]>>

\* A state_name that arrived as a JSON array and is a Python list, which
\* cannot be hashed; and the text str() and to_csv write for it.
ListName == "list ['OREGON']"

ListText == "['OREGON']"

\* The table holds a list in a column.
has_unhashable(df, c) ==
    /\ c \in SeqToSet(df.columns)
    /\ \E i \in 1..Len(df.rows) : df.rows[i][c] = ListName

\* The counties of the model, in the lexicographic order of their keys.
KeyOrder ==
    << <<"OREGON", "BENTON", 2022>>, <<"OREGON", "LANE", 2022>> >>

\* df.rename(columns={"Value": col_name})
RenamedColumn(c, col_name) == IF c = "Value" THEN col_name ELSE c

rename(df, col_name) ==
    LET cols == [i \in 1..Len(df.columns) |->
                    RenamedColumn(df.columns[i], col_name)]
        Renamed(row) ==
            [c \in SeqToSet(cols) |->
                IF c = col_name /\ "Value" \in DOMAIN row
                THEN row["Value"] ELSE row[c]]
    IN  DataFrame(cols, [i \in 1..Len(df.rows) |-> Renamed(df.rows[i])])

\* A row of one table widened by the columns of the other.
Combine(l, r) ==
    [c \in DOMAIN l \cup DOMAIN r |-> IF c \in DOMAIN l THEN l[c] ELSE r[c]]

Pad(row, cols) ==
    [c \in DOMAIN row \cup cols |-> IF c \in DOMAIN row THEN row[c] ELSE NaN]

RECURSIVE Concat(_)
Concat(seqs) ==
    IF seqs = <<>> THEN <<>> ELSE Head(seqs) \o Concat(Tail(seqs))

\* how="inner": only the keys of both tables are kept.
merge_inner(left, right) ==
    LET HasKey(k) ==
            /\ \E i \in 1..Len(left.rows) : KeyOf(left.rows[i]) = k
            /\ \E i \in 1..Len(right.rows) : KeyOf(right.rows[i]) = k
        keys == SelectSeq(KeyOrder, HasKey)
        RowsFor(k) ==
            LET IsK(row) == KeyOf(row) = k
                ls == SelectSeq(left.rows, IsK)
                rs == SelectSeq(right.rows, IsK)
            IN  [n \in 1..(Len(ls) * Len(rs)) |->
                    Combine(ls[((n - 1) \div Len(rs)) + 1],
                            rs[((n - 1) % Len(rs)) + 1])]
        IsValueColumn(c) == c \notin SeqToSet(KeyColumns)
    IN  DataFrame(left.columns \o SelectSeq(right.columns, IsValueColumn),
                  Concat([j \in 1..Len(keys) |-> RowsFor(keys[j])]))

\* how="left": the keys of the right table alone are dropped.
merge_left(left, right) ==
    LET HasKey(k) == \E i \in 1..Len(left.rows) : KeyOf(left.rows[i]) = k
        keys == SelectSeq(KeyOrder, HasKey)
        RowsFor(k) ==
            LET IsK(row) == KeyOf(row) = k
                ls == SelectSeq(left.rows, IsK)
                rs == SelectSeq(right.rows, IsK)
            IN  IF rs = <<>>
                THEN [i \in 1..Len(ls) |-> Pad(ls[i], SeqToSet(right.columns))]
                ELSE [n \in 1..(Len(ls) * Len(rs)) |->
                        Combine(ls[((n - 1) \div Len(rs)) + 1],
                                rs[((n - 1) % Len(rs)) + 1])]
        IsValueColumn(c) == c \notin SeqToSet(KeyColumns)
    IN  DataFrame(left.columns \o SelectSeq(right.columns, IsValueColumn),
                  Concat([j \in 1..Len(keys) |-> RowsFor(keys[j])]))

\* pd.merge(left, right, on=["state_name", "county_name", "year"],
\* how="outer"): the union of the keys, sorted; per key, every pairing of a
\* left row with a right row, or the rows of the one side padded with NaN.
merge(left, right) ==
    LET HasKey(k) ==
            \/ \E i \in 1..Len(left.rows) : KeyOf(left.rows[i]) = k
            \/ \E i \in 1..Len(right.rows) : KeyOf(right.rows[i]) = k
        keys == SelectSeq(KeyOrder, HasKey)
        RowsFor(k) ==
            LET IsK(row) == KeyOf(row) = k
                ls == SelectSeq(left.rows, IsK)
                rs == SelectSeq(right.rows, IsK)
            IN  IF rs = <<>>
                THEN [i \in 1..Len(ls) |-> Pad(ls[i], SeqToSet(right.columns))]
                ELSE IF ls = <<>>
                THEN [i \in 1..Len(rs) |-> Pad(rs[i], SeqToSet(left.columns))]
                ELSE [n \in 1..(Len(ls) * Len(rs)) |->
                        Combine(ls[((n - 1) \div Len(rs)) + 1],
                                rs[((n - 1) % Len(rs)) + 1])]
        IsValueColumn(c) == c \notin SeqToSet(KeyColumns)
    IN  DataFrame(left.columns \o SelectSeq(right.columns, IsValueColumn),
                  Concat([j \in 1..Len(keys) |-> RowsFor(keys[j])]))

\* pd.merge hashes the key columns: with a list in one of them it raises
\* TypeError.  reduce calls pd.merge when there are two tables or more.
reduce_raises(tables) ==
    /\ Len(tables) >= 2
    /\ \E i \in 1..Len(tables) :
          \/ has_unhashable(tables[i], "state_name")
          \/ has_unhashable(tables[i], "county_name")

\* functools.reduce(merge, tables) of a non-empty list.
RECURSIVE reduce(_)
reduce(tables) ==
    IF Len(tables) = 1 THEN tables[1]
    ELSE merge(reduce(SubSeq(tables, 1, Len(tables) - 1)),
               tables[Len(tables)])

(***************************************************************************)
(* Cleaning and the derived column.                                        *)
(***************************************************************************)

DigitChars == <<"0", "1", "2", "3", "4", "5", "6", "7", "8", "9">>

RECURSIVE DecimalText(_)
DecimalText(n) ==
    IF n < 10 THEN <<DigitChars[n + 1]>>
    ELSE DecimalText(n \div 10) \o <<DigitChars[(n % 10) + 1]>>

\* Series.astype(str): a str stays and NaN becomes "nan"; a number is
\* printed with its fraction when the column is float64, which a column of
\* numbers is when it holds a NaN.
astype_str(cell, is_float) ==
    CASE cell.kind = "str" -> cell.text
      [] cell.kind = "nan" -> <<"n", "a", "n">>
      [] cell.kind = "num" ->
            DecimalText(cell.num) \o (IF is_float THEN <<".", "0">> ELSE <<>>)

\* A numeral with a fraction of zeros, as astype(str) prints a float.
IsWholeFloat(t) ==
    \E d \in 1..Len(t) :
        /\ t[d] = "."
        /\ AllDigits(SubSeq(t, 1, d - 1))
        /\ \A i \in (d + 1)..Len(t) : t[i] = "0"

WholePart(t) ==
    SubSeq(t, 1, (CHOOSE d \in 1..Len(t) : t[d] = ".") - 1)

\* errors='coerce' replaced by a fill with zero.
to_numeric_zero(text) ==
    LET t == Strip(text)
    IN  IF AllDigits(t) THEN Num(DecimalValue(t))
        ELSE IF IsWholeFloat(t) THEN Num(DecimalValue(WholePart(t)))
        ELSE Num(0)

\* A parser that takes digits only, and no fraction.
to_numeric_digits_only(text) ==
    LET t == Strip(text)
    IN  IF AllDigits(t) THEN Num(DecimalValue(t)) ELSE NaN

\* pd.to_numeric(text, errors='coerce') of one str: the parser skips the
\* whitespace around the numeral; what is no numeral ("nan" included)
\* becomes NaN.  The numbers of the model are whole.
to_numeric(text) ==
    LET t == Strip(text)
    IN  IF AllDigits(t) THEN Num(DecimalValue(t))
        ELSE IF IsWholeFloat(t) THEN Num(DecimalValue(WholePart(t)))
        ELSE NaN

\* .astype(str).str.strip().str.replace(",", "", regex=False), to_numeric
clean_cell(cell, is_float) ==
    to_numeric(RemoveCommas(Strip(astype_str(cell, is_float))))

IsColumn(df, c) == c \in SeqToSet(df.columns)

\* cols_to_clean
cols_to_clean(df) ==
    LET Present(c) == IsColumn(df, c) IN SelectSeq(METRICS, Present)

HasNaN(df, c) == \E i \in 1..Len(df.rows) : df.rows[i][c] = NaN

clean(df) ==
    LET cols == SeqToSet(cols_to_clean(df))
        CleanedRow(row) ==
            [c \in DOMAIN row |->
                IF c \in cols THEN clean_cell(row[c], HasNaN(df, c))
                ELSE row[c]]
    IN  DataFrame(df.columns,
                  [i \in 1..Len(df.rows) |-> CleanedRow(df.rows[i])])

grass_seed_cols ==
    << "grass_seed_bentgrass_acres", "grass_seed_bermudagrass_acres",
       "grass_seed_bluegrass_acres", "grass_seed_bromegrass_acres",
       "grass_seed_fescue_acres", "grass_seed_orchardgrass_acres",
       "grass_seed_ryegrass_acres", "grass_seed_sudangrass_acres",
       "grass_seed_timothy_acres", "grass_seed_wheatgrass_acres" >>

existing_grass_cols(df) ==
    LET Present(c) == IsColumn(df, c) IN SelectSeq(grass_seed_cols, Present)

\* fillna(0)
fillna0(cell) == IF cell = NaN THEN 0 ELSE cell.num

\* merged[cols].fillna(0).sum(axis=1) of one row
RECURSIVE RowSum(_, _)
RowSum(row, cols) ==
    IF cols = <<>> THEN 0
    ELSE fillna0(row[Head(cols)]) + RowSum(row, Tail(cols))

\* The sum is kept for a row whose family members are all NaN.
grass_seed_acres_sum_only(row, cols) == Num(RowSum(row, cols))

\* merged[cols].isna().all(axis=1) rows get None
grass_seed_acres(row, cols) ==
    IF \A i \in 1..Len(cols) : row[cols[i]] = NaN
    THEN NaN
    ELSE Num(RowSum(row, cols))

rollup(df) ==
    LET cols == existing_grass_cols(df)
        Derived(row) ==
            [c \in DOMAIN row \cup {"grass_seed_acres"} |->
                IF c = "grass_seed_acres"
                THEN grass_seed_acres(row, cols) ELSE row[c]]
    IN  IF cols = <<>> THEN df
        ELSE DataFrame(df.columns \o <<"grass_seed_acres">>,
                       [i \in 1..Len(df.rows) |-> Derived(df.rows[i])])

(***************************************************************************)
(* The cache file: to_csv and read_csv.                                    *)
(***************************************************************************)

\* The text to_csv writes for a cell.
CsvField(c, value) ==
    IF c = "year" THEN DecimalText(value)
    ELSE IF c \in SeqToSet(KeyColumns)
    THEN (IF value = ListName THEN ListText ELSE value)
    ELSE CASE value.kind = "str" -> value.text
           [] value.kind = "nan" -> <<>>
           [] value.kind = "num" -> DecimalText(value.num)

\* df.to_csv(cache_file, index=False): a header and a line per row.
to_csv(df) ==
    [header |-> df.columns,
     lines |-> [i \in 1..Len(df.rows) |->
                   [c \in SeqToSet(df.columns) |-> CsvField(c, df.rows[i][c])]]]

\* pd.read_csv(cache_file): an empty field is NaN; Value is a column of
\* numbers when every field of it is a numeral, and of str otherwise.
read_csv(file) ==
    LET IsNumeral(t) == t = <<>> \/ AllDigits(Strip(t))
        numeric ==
            \A i \in 1..Len(file.lines) : IsNumeral(file.lines[i]["Value"])
        Parsed(c, field) ==
            IF c = "year" THEN DecimalValue(field)
            ELSE IF c \in SeqToSet(KeyColumns) THEN field
            ELSE IF field = <<>> THEN NaN
            ELSE IF numeric THEN Num(DecimalValue(Strip(field)))
            ELSE Str(field)
    IN  DataFrame(file.header,
                  [i \in 1..Len(file.lines) |->
                      [c \in SeqToSet(file.header) |->
                          Parsed(c, file.lines[i][c])]])

(***************************************************************************)
(* main, from the tables its fetch loop received to the output file.       *)
(***************************************************************************)

\* The loop body of main without the fetch: a non-empty table is renamed
\* and appended to frames.
RECURSIVE LoopFrames(_, _)
LoopFrames(catalog, tables) ==
    IF catalog = <<>> THEN <<>>
    ELSE LET col_name == Head(catalog)
             df == tables[col_name]
         IN  (IF IsEmpty(df) THEN <<>> ELSE <<rename(df, col_name)>>)
                \o LoopFrames(Tail(catalog), tables)

\* Inputs: per metric the rows of the table fetch_metric_multistate
\* returned, at most MaxTotalRows rows in all.
MaxTotalRows == 3

CellTexts ==
    { <<"(", "D", ")">>,
      <<" ", "1", ",", "2", "0", "0", " ">>,
      <<"0">>,
      <<"1", " ", "2">> }

FetchColumns == <<"state_name", "county_name", "year", "Value">>

FetchedRow(k, text) ==
    [c \in SeqToSet(FetchColumns) |->
        CASE c = "state_name" -> k[1]
          [] c = "county_name" -> k[2]
          [] c = "year" -> k[3]
          [] c = "Value" -> Str(text)]

FetchedRows == {FetchedRow(k, t) : k \in SeqToSet(KeyOrder), t \in CellTexts}

RECURSIVE RowLists(_)
RowLists(n) ==
    IF n = 0 THEN {[m \in MetricNames |-> <<>>]}
    ELSE LET fewer == RowLists(n - 1)
         IN  fewer \cup
             {[f EXCEPT ![m] = Append(@, r)] :
                 f \in fewer, m \in MetricNames, r \in FetchedRows}

\* What fetch_metric_multistate returns for the rows: nothing collected is
\* pd.DataFrame(), a cache hit is the table read back from its file.
FetchedTable(rows, cached) ==
    IF rows = <<>> THEN EmptyDataFrame
    ELSE IF cached THEN read_csv(to_csv(DataFrame(FetchColumns, rows)))
    ELSE DataFrame(FetchColumns, rows)

InitPipeline ==
    /\ \E lists \in RowLists(MaxTotalRows), cached \in BOOLEAN :
          dfs = [m \in MetricNames |-> FetchedTable(lists[m], cached)]
    /\ frames = <<>>
    /\ merged = <<>>
    /\ output = NoFile
    /\ pipe_pc = "loop"
    /\ IdleReconcile
    /\ IdleFetch
    /\ IdleRun

\* for idx, (col_name, (desc, extras)) in enumerate(METRICS.items(), 1)
Collect ==
    /\ pipe_pc = "loop"
    /\ frames' = LoopFrames(METRICS, dfs)
    /\ pipe_pc' = "summary"
    /\ UNCHANGED <<reconcileVars, fetchVars, runVars,
                   dfs, merged, output>>

\* if not frames: return
Abort ==
    /\ pipe_pc = "summary"
    /\ frames = <<>>
    /\ pipe_pc' = "done"
    /\ UNCHANGED <<reconcileVars, fetchVars, runVars,
                   dfs, frames, merged, output>>

\* merged = reduce(lambda left, right: pd.merge(...), frames)
MergeFrames ==
    /\ pipe_pc = "summary"
    /\ frames # <<>>
    /\ ~reduce_raises(frames)
    /\ merged' = reduce(frames)
    /\ pipe_pc' = "clean"
    /\ UNCHANGED <<reconcileVars, fetchVars, runVars,
                   dfs, frames, output>>

\* for col in cols_to_clean: merged[col] = pd.to_numeric(...)
Clean ==
    /\ pipe_pc = "clean"
    /\ merged' = clean(merged)
    /\ pipe_pc' = "rollup"
    /\ UNCHANGED <<reconcileVars, fetchVars, runVars,
                   dfs, frames, output>>

\* merged["grass_seed_acres"] = ...
Rollup ==
    /\ pipe_pc = "rollup"
    /\ merged' = rollup(merged)
    /\ pipe_pc' = "save"
    /\ UNCHANGED <<reconcileVars, fetchVars, runVars,
                   dfs, frames, output>>

\* merged.to_csv(output_filename, index=False)
Save ==
    /\ pipe_pc = "save"
    /\ output' = merged
    /\ pipe_pc' = "done"
    /\ UNCHANGED <<reconcileVars, fetchVars, runVars,
                   dfs, frames, merged>>

NextPipeline ==
    \/ Collect
    \/ Abort
    \/ MergeFrames
    \/ Clean
    \/ Rollup
    \/ Save

SpecPipeline == InitPipeline /\ [][NextPipeline]_vars

(***************************************************************************)
(* Claims about the merge, the cleaner and the rollup (SpecPipeline).      *)
(***************************************************************************)

Merged == pipe_pc = "clean"

RowsOf(df) == {df.rows[i] : i \in 1..Len(df.rows)}

RowsWithKey(df, k) == {i \in 1..Len(df.rows) : KeyOf(df.rows[i]) = k}

KeysOf(df) == {KeyOf(df.rows[i]) : i \in 1..Len(df.rows)}

\* The metric column of a table of frames: its fourth column.
MetricColumn(df) == df.columns[4]

\* C4: after the merge, every key of every input table is the key of
\* exactly one row of the merged table.
C4_EveryKeyExactlyOnce ==
    Merged =>
        \A f \in 1..Len(frames) : \A k \in KeysOf(frames[f]) :
            Cardinality(RowsWithKey(merged, k)) = 1

\* C5: after the merge, a key in the table of metric A and not in the table
\* of metric B has a merged row with A's value in column A and NaN in
\* column B; and every row of every input table has a merged row with its
\* key and its value.
C5_OuterJoinKeepsRowsAndPadsAbsent ==
    Merged =>
        /\ \A a \in 1..Len(frames), b \in 1..Len(frames) :
              \A row \in RowsOf(frames[a]) :
                  KeyOf(row) \notin KeysOf(frames[b]) =>
                      \E m \in RowsOf(merged) :
                          /\ KeyOf(m) = KeyOf(row)
                          /\ m[MetricColumn(frames[a])] =
                                row[MetricColumn(frames[a])]
                          /\ m[MetricColumn(frames[b])] = NaN
        /\ \A f \in 1..Len(frames) : \A row \in RowsOf(frames[f]) :
              \E m \in RowsOf(merged) :
                  /\ KeyOf(m) = KeyOf(row)
                  /\ m[MetricColumn(frames[f])] = row[MetricColumn(frames[f])]

\* C5 witness: two tables were merged and a key of the one is missing from
\* the other.
C5_Witness ==
    /\ Merged
    /\ Len(frames) >= 2
    /\ \E k \in KeysOf(frames[1]) : k \notin KeysOf(frames[2])
    /\ \E m \in RowsOf(merged) : m[MetricColumn(frames[2])] = NaN

Permuted(tables, p) == [i \in 1..Len(tables) |-> tables[p[i]]]

\* C6: folding the outer join over the tables in any order gives the rows
\* the merge in catalog order gave: the same keys with the same value in
\* every metric column.
C6_MergeOrderIndependent ==
    Merged =>
        \A p \in Permutations(1..Len(frames)) :
            RowsOf(reduce(Permuted(frames, p))) = RowsOf(merged)

\* C6 witness: three tables with different key sets were merged.
C6_Witness ==
    /\ Merged
    /\ Len(frames) = 3
    /\ KeysOf(frames[1]) # KeysOf(frames[2])
    /\ KeysOf(frames[2]) # KeysOf(frames[3])

\* What the cleaner is to make of a cell: NaN stays NaN and a number stays
\* the number; a text gives the number it spells once its commas and the
\* whitespace around it are removed, and NaN when that is no numeral.
Cleaned(cell) ==
    IF cell.kind # "str" THEN cell
    ELSE LET t == Strip(RemoveCommas(Strip(cell.text)))
         IN  IF AllDigits(t) THEN Num(DecimalValue(t)) ELSE NaN

SpellsZero(cell) ==
    \/ cell = Num(0)
    \/ /\ cell.kind = "str"
       /\ LET t == Strip(RemoveCommas(Strip(cell.text)))
          IN  t # <<>> /\ \A i \in 1..Len(t) : t[i] = "0"

AfterClean == pipe_pc = "rollup"

\* C7: after cleaning, every cell of every metric column of the merged
\* table is the number its raw text spells, or NaN when the raw cell was NaN
\* or spells no number; it is 0 only when the raw text spells 0;
\* " 1,200 " becomes 1200 and (D) becomes NaN.
C7_CleanedCells ==
    AfterClean =>
        LET raw == reduce(frames)
        IN  /\ Len(merged.rows) = Len(raw.rows)
            /\ merged.columns = raw.columns
            /\ \A i \in 1..Len(raw.rows) :
                  /\ KeyOf(merged.rows[i]) = KeyOf(raw.rows[i])
                  /\ \A f \in 1..Len(frames) :
                        LET col == MetricColumn(frames[f])
                            before == raw.rows[i][col]
                            after == merged.rows[i][col]
                        IN  /\ after = Cleaned(before)
                            /\ after = Num(0) => SpellsZero(before)
                            /\ before = Str(<<" ", "1", ",", "2", "0", "0", " ">>)
                                  => after = Num(1200)
                            /\ before = Str(<<"(", "D", ")">>) => after = NaN

\* C7 witness: one cleaned row holds a number and a NaN that was a
\* suppression marker, another a NaN that was absent before.
C7_Witness ==
    /\ AfterClean
    /\ LET raw == reduce(frames)
       IN  \E i \in 1..Len(raw.rows), j \in 1..Len(raw.rows) :
             \E a \in 1..Len(frames), b \in 1..Len(frames) :
                /\ raw.rows[i][MetricColumn(frames[a])] = Str(<<"(", "D", ")">>)
                /\ merged.rows[i][MetricColumn(frames[a])] = NaN
                /\ merged.rows[i][MetricColumn(frames[b])] = Num(1200)
                /\ raw.rows[j][MetricColumn(frames[a])] = NaN
                /\ merged.rows[j][MetricColumn(frames[a])] = NaN

AfterRollup == pipe_pc \in {"save", "done"} /\ merged # <<>>

\* The grass seed columns the merged table holds.
FamilyColumns == SeqToSet(grass_seed_cols) \cap SeqToSet(merged.columns)

RECURSIVE SumPresent(_, _)
SumPresent(row, cols) ==
    IF cols = {} THEN 0
    ELSE LET c == CHOOSE x \in cols : TRUE
         IN  (IF row[c] = NaN THEN 0 ELSE row[c].num)
                + SumPresent(row, cols \ {c})

\* C8: after the rollup, grass_seed_acres of a row is NaN when every grass
\* seed column of the merged table is NaN in the row, and otherwise the sum
\* of the row's numbers in those columns; when the table has no grass seed
\* column there is no grass_seed_acres column.
C8_RollupAbsentOrSum ==
    AfterRollup =>
        IF FamilyColumns = {}
        THEN ~IsColumn(merged, "grass_seed_acres")
        ELSE \A i \in 1..Len(merged.rows) :
                LET row == merged.rows[i]
                IN  IF \A c \in FamilyColumns : row[c] = NaN
                    THEN row["grass_seed_acres"] = NaN
                    ELSE row["grass_seed_acres"] =
                            Num(SumPresent(row, FamilyColumns))

\* C8 witness: one row has no grass seed value and no rollup, another has a
\* genuine zero beside an absent member and the rollup 0.
C8_Witness ==
    /\ AfterRollup
    /\ Cardinality(FamilyColumns) = 2
    /\ \E i \in 1..Len(merged.rows), j \in 1..Len(merged.rows) :
          /\ \A c \in FamilyColumns : merged.rows[i][c] = NaN
          /\ merged.rows[i]["grass_seed_acres"] = NaN
          /\ \E c \in FamilyColumns : merged.rows[j][c] = Num(0)
          /\ \E c \in FamilyColumns : merged.rows[j][c] = NaN
          /\ merged.rows[j]["grass_seed_acres"] = Num(0)

\* The output file has been written.
Saved == pipe_pc = "done" /\ output # NoFile

\* C16: every row of the table written to the output file carries a column
\* for every metric of METRICS, also for a metric whose table was empty.
C16_ColumnForEveryMetric ==
    Saved =>
        /\ MetricNames \subseteq SeqToSet(output.columns)
        /\ \A i \in 1..Len(output.rows) :
              MetricNames \subseteq DOMAIN output.rows[i]

\* C17: the cleaning step applied to the cleaned table gives the same
\* table: in every metric column a NaN stays NaN and a number stays the
\* same number.
C17_CleaningIdempotent ==
    AfterClean =>
        /\ clean(merged) = merged
        /\ \A i \in 1..Len(merged.rows) :
              \A c \in SeqToSet(cols_to_clean(merged)) :
                 LET cell == merged.rows[i][c]
                     again == clean_cell(cell, HasNaN(merged, c))
                 IN  /\ cell = NaN => again = NaN
                     /\ cell # NaN => (again.kind = "num"
                                          /\ again.num = cell.num)

\* C17 witness: the cleaned table has a column that holds a number and a
\* NaN, which astype(str) prints as "1200.0" and "nan", and a column of
\* numbers only.
C17_Witness ==
    /\ AfterClean
    /\ \E c \in SeqToSet(cols_to_clean(merged)) :
          /\ \E i \in 1..Len(merged.rows) : merged.rows[i][c] = Num(1200)
          /\ HasNaN(merged, c)
    /\ \E c \in SeqToSet(cols_to_clean(merged)) :
          /\ ~HasNaN(merged, c)
          /\ \E i \in 1..Len(merged.rows) : merged.rows[i][c] = Num(0)

(***************************************************************************)
(* The fetch layer: fetch_with_retry and fetch_metric_multistate.          *)
(***************************************************************************)

MAX_RETRIES == 3

RETRY_DELAY == 5

API_DELAY == 2

\* The default argument of fetch_with_retry, which every caller uses.
max_retries == MAX_RETRIES

\* Two of the states of TARGET_STATES, in order.
TARGET_STATES == <<"OR", "WA">>

\* The county the API answers with for a state.
CountyKey(state) ==
    IF state = "OR" THEN <<"OREGON", "LANE", 2022>>
    ELSE <<"WASHINGTON", "YAKIMA", 2022>>

\* A parsed JSON object: the keys it holds and, under "data", its records.
Dict(keys, recs) == [kind |-> "dict", keys |-> keys, data |-> recs]

\* An API record: the four columns the fetcher keeps and one it drops.
ApiRecord(state, text) ==
    [c \in SeqToSet(FetchColumns) \cup {"domaincat_desc"} |->
        IF c = "domaincat_desc" THEN AGGREGATE
        ELSE FetchedRow(CountyKey(state), text)[c]]

\* A record that lacks the Value field.
ShortRecord(state) ==
    [c \in {"state_name", "county_name", "year"} |->
        FetchedRow(CountyKey(state), <<>>)[c]]

\* A record whose state_name is a JSON array.
ListRecord(state) ==
    [ApiRecord(state, <<"0">>) EXCEPT !["state_name"] = ListName]

ApiTexts == { <<"(", "D", ")">>, <<"0">> }

\* What r.json() can return: an object with records, with a record that
\* lacks a column, with no records, with an error message, with nothing;
\* None, for the body null; and, for the first of the target states, an
\* object with a record whose state_name is a list.
Payloads(state) ==
    {Dict({"data"}, <<ApiRecord(state, t)>>) : t \in ApiTexts}
        \cup (IF state = TARGET_STATES[1]
              THEN {Dict({"data"}, <<ListRecord(state)>>)} ELSE {})
        \cup { Dict({"data"}, <<ShortRecord(state)>>),
               Dict({"data"}, <<>>),
               Dict({"error"}, <<>>),
               Dict({}, <<>>),
               None }

\* What requests.get and r.json() can come to for one attempt.
Answered(state) ==
    {[kind |-> "status_200", json |-> p] : p \in Payloads(state)}

Failures ==
    {[kind |-> k] :
        k \in {"status_200_bad_json", "status_429", "status_500",
               "Timeout", "RequestException"}}

\* range(max_retries), one attempt too many
range_inclusive(n) == 0..n

\* range(max_retries)
range(n) == 0..(n - 1)

\* The seconds slept in an iteration of the retry loop that did not return.
backoff(a, response) ==
    (IF response.kind = "status_429" THEN RETRY_DELAY * 2 ELSE 0)
        + (IF a < max_retries - 1 THEN RETRY_DELAY ELSE 0)

\* Python's truth value of fetch_with_retry's result.
Truthy(d) == d # None /\ d.keys # {}

HasRecords(d) == Truthy(d) /\ "data" \in d.keys /\ Len(d.data) > 0

HasNoRecords(d) == Truthy(d) /\ "data" \in d.keys /\ Len(d.data) = 0

\* df[["state_name", "county_name", "year", "Value"]] raises KeyError when
\* a column is missing.
LacksColumn(recs) ==
    \E i \in 1..Len(recs) : ~(SeqToSet(FetchColumns) \subseteq DOMAIN recs[i])

\* pd.DataFrame(data["data"])[["state_name", "county_name", "year", "Value"]]
Selected(recs) ==
    DataFrame(FetchColumns,
              [i \in 1..Len(recs) |->
                  [c \in SeqToSet(FetchColumns) |-> recs[i][c]]])

\* pd.concat(all_states_data, ignore_index=True)
concat(tables) ==
    DataFrame(FetchColumns,
              Concat([i \in 1..Len(tables) |-> tables[i].rows]))

\* A cache file left by an earlier run.
EarlierCacheFile ==
    to_csv(DataFrame(FetchColumns,
                     << FetchedRow(CountyKey("OR"), <<"1", "2">>),
                        FetchedRow(CountyKey("WA"), <<"(", "D", ")">>) >>))

InitFetch ==
    /\ metric_name \in MetricNames
    /\ cache \in [MetricNames -> {NoFile, EarlierCacheFile}]
    /\ fm_pc = "call"
    /\ state_idx = 0
    /\ attempt = 0
    /\ requests = 0
    /\ responses = <<>>
    /\ data = None
    /\ slept = 0
    /\ all_states_data = <<>>
    /\ states_fetched = <<>>
    /\ states_failed = <<>>
    /\ fm_result = NoResult
    /\ exception = None
    /\ calls = <<>>
    /\ IdleReconcile
    /\ IdlePipeline
    /\ IdleRun

\* if os.path.exists(cache_file): return pd.read_csv(cache_file)
CacheHit ==
    /\ fm_pc = "call"
    /\ cache[metric_name] # NoFile
    /\ fm_result' = read_csv(cache[metric_name])
    /\ fm_pc' = "returned"
    /\ UNCHANGED <<reconcileVars, pipelineVars, runVars, calls,
                   metric_name, cache,
                   state_idx, attempt, requests, responses, data, slept,
                   all_states_data, states_fetched, states_failed, exception>>

\* The loop over TARGET_STATES begins whether or not the cache file exists.
fetch_ignoring_cache ==
    /\ fm_pc = "call"
    /\ all_states_data' = <<>>
    /\ states_fetched' = <<>>
    /\ states_failed' = <<>>
    /\ state_idx' = 1
    /\ fm_pc' = "state_loop"
    /\ UNCHANGED <<reconcileVars, pipelineVars, runVars, calls,
                   metric_name, cache, attempt,
                   requests, responses, data, slept, fm_result, exception>>

\* The cache file is absent: the loop over TARGET_STATES begins.
CacheMiss ==
    /\ fm_pc = "call"
    /\ cache[metric_name] = NoFile
    /\ all_states_data' = <<>>
    /\ states_fetched' = <<>>
    /\ states_failed' = <<>>
    /\ state_idx' = 1
    /\ fm_pc' = "state_loop"
    /\ UNCHANGED <<reconcileVars, pipelineVars, runVars, calls,
                   metric_name, cache, attempt,
                   requests, responses, data, slept, fm_result, exception>>

\* data = fetch_with_retry(BASE_URL, params): the call.
StartFetch ==
    /\ fm_pc = "state_loop"
    /\ state_idx <= Len(TARGET_STATES)
    /\ attempt' = 0
    /\ requests' = 0
    /\ responses' = <<>>
    /\ calls' = Append(calls, <<metric_name, TARGET_STATES[state_idx]>>)
    /\ fm_pc' = "attempt"
    /\ UNCHANGED <<reconcileVars, pipelineVars, runVars,
                   metric_name, cache,
                   state_idx, data, slept, all_states_data, states_fetched,
                   states_failed, fm_result, exception>>

\* An iteration of the retry loop that is answered with status 200 and a
\* body that parses: fetch_with_retry returns the payload.
RequestAnswered ==
    /\ fm_pc = "attempt"
    /\ attempt \in range(max_retries)
    /\ \E r \in Answered(TARGET_STATES[state_idx]) :
          /\ responses' = Append(responses, r)
          /\ data' = r.json
    /\ requests' = requests + 1
    /\ slept' = 0
    /\ fm_pc' = "classify"
    /\ UNCHANGED <<reconcileVars, pipelineVars, runVars, calls,
                   metric_name, cache,
                   state_idx, attempt, all_states_data, states_fetched,
                   states_failed, fm_result, exception>>

\* An iteration of the retry loop that fails: the backoff, and the next
\* iteration or, after the last one, return None.
RequestFailed ==
    /\ fm_pc = "attempt"
    /\ attempt \in range(max_retries)
    /\ \E r \in Failures :
          /\ responses' = Append(responses, r)
          /\ slept' = backoff(attempt, r)
    /\ requests' = requests + 1
    /\ attempt' = attempt + 1
    /\ IF attempt + 1 \in range(max_retries)
       THEN fm_pc' = "attempt" /\ data' = data
       ELSE fm_pc' = "classify" /\ data' = None
    /\ UNCHANGED <<reconcileVars, pipelineVars, runVars, calls,
                   metric_name, cache,
                   state_idx, all_states_data, states_fetched,
                   states_failed, fm_result, exception>>

\* if data and "data" in data and len(data["data"]) > 0, a record lacks a
\* column: KeyError leaves fetch_metric_multistate.
ClassifyRaises ==
    /\ fm_pc = "classify"
    /\ HasRecords(data)
    /\ LacksColumn(data.data)
    /\ exception' = "KeyError"
    /\ fm_pc' = "raised"
    /\ UNCHANGED <<reconcileVars, pipelineVars, runVars, calls,
                   metric_name, cache,
                   state_idx, attempt, requests, responses, data, slept,
                   all_states_data, states_fetched, states_failed, fm_result>>

\* A state without records ends the loop over TARGET_STATES.
classify_breaks_on_failure ==
    /\ fm_pc = "classify"
    /\ ~(HasRecords(data) /\ LacksColumn(data.data))
    /\ LET state == TARGET_STATES[state_idx]
       IN  IF HasRecords(data)
           THEN /\ all_states_data' =
                      Append(all_states_data, Selected(data.data))
                /\ states_fetched' = Append(states_fetched, state)
                /\ state_idx' = state_idx + 1
                /\ UNCHANGED states_failed
           ELSE /\ states_failed' =
                      Append(states_failed,
                             state \o (IF HasNoRecords(data)
                                       THEN " (no data)" ELSE " (failed)"))
                /\ state_idx' = Len(TARGET_STATES) + 1
                /\ UNCHANGED <<all_states_data, states_fetched>>
    /\ slept' = slept + API_DELAY
    /\ fm_pc' = "state_loop"
    /\ UNCHANGED <<reconcileVars, pipelineVars, runVars, calls,
                   metric_name, cache, attempt,
                   requests, responses, data, fm_result, exception>>

\* The rest of the loop body: the state is recorded as fetched, as
\* "(no data)" or as "(failed)", then time.sleep(API_DELAY).
Classify ==
    /\ fm_pc = "classify"
    /\ ~(HasRecords(data) /\ LacksColumn(data.data))
    /\ LET state == TARGET_STATES[state_idx]
       IN  IF HasRecords(data)
           THEN /\ all_states_data' =
                      Append(all_states_data, Selected(data.data))
                /\ states_fetched' = Append(states_fetched, state)
                /\ UNCHANGED states_failed
           ELSE IF HasNoRecords(data)
           THEN /\ states_failed' =
                      Append(states_failed, state \o " (no data)")
                /\ UNCHANGED <<all_states_data, states_fetched>>
           ELSE /\ states_failed' =
                      Append(states_failed, state \o " (failed)")
                /\ UNCHANGED <<all_states_data, states_fetched>>
    /\ slept' = slept + API_DELAY
    /\ state_idx' = state_idx + 1
    /\ fm_pc' = "state_loop"
    /\ UNCHANGED <<reconcileVars, pipelineVars, runVars, calls,
                   metric_name, cache, attempt,
                   requests, responses, data, fm_result, exception>>

\* After the loop the combined table is returned and no file is written.
finish_without_caching ==
    /\ fm_pc = "state_loop"
    /\ state_idx > Len(TARGET_STATES)
    /\ fm_result' = IF all_states_data = <<>> THEN EmptyDataFrame
                    ELSE concat(all_states_data)
    /\ fm_pc' = "returned"
    /\ UNCHANGED <<reconcileVars, pipelineVars, runVars, calls,
                   metric_name, cache, state_idx,
                   attempt, requests, responses, data, slept,
                   all_states_data, states_fetched, states_failed, exception>>

\* After the loop: nothing collected returns pd.DataFrame(); otherwise the
\* tables are concatenated, written to the cache file and returned.
Finish ==
    /\ fm_pc = "state_loop"
    /\ state_idx > Len(TARGET_STATES)
    /\ IF all_states_data = <<>>
       THEN /\ fm_result' = EmptyDataFrame
            /\ UNCHANGED cache
       ELSE /\ cache' = [cache EXCEPT
                            ![metric_name] = to_csv(concat(all_states_data))]
            /\ fm_result' = concat(all_states_data)
    /\ fm_pc' = "returned"
    /\ UNCHANGED <<reconcileVars, pipelineVars, runVars, calls,
                   metric_name, state_idx,
                   attempt, requests, responses, data, slept,
                   all_states_data, states_fetched, states_failed, exception>>

NextFetch ==
    \/ CacheHit
    \/ CacheMiss
    \/ StartFetch
    \/ RequestAnswered
    \/ RequestFailed
    \/ ClassifyRaises
    \/ Classify
    \/ Finish

SpecFetch == InitFetch /\ [][NextFetch]_vars

(***************************************************************************)
(* Claims about the fetch layer (SpecFetch).                               *)
(***************************************************************************)

InRetryLoop == fm_pc = "attempt"

\* fetch_with_retry has returned and its result is not yet consumed.
FetchReturned == fm_pc = "classify"

IsAnswered(r) == r.kind = "status_200"

NoneAnswered == \A i \in 1..Len(responses) : ~IsAnswered(responses[i])

\* A request was answered with status 200 and the body null.
AnsweredNull ==
    /\ responses # <<>>
    /\ IsAnswered(responses[Len(responses)])
    /\ responses[Len(responses)].json = None

\* What holds of every call: at most max_retries requests; a request
\* answered with status 200 and a parseable body is the last one of the
\* call, and its payload is what the call returns; no exception.
RetryBounds ==
    /\ requests = Len(responses)
    /\ requests <= max_retries
    /\ \A i \in 1..Len(responses) :
          IsAnswered(responses[i]) => i = Len(responses)
    /\ InRetryLoop => NoneAnswered /\ requests < max_retries
    /\ (FetchReturned /\ ~NoneAnswered) =>
          data = responses[Len(responses)].json
    /\ exception = None

Classified == fm_pc = "state_loop" /\ state_idx > 1

ClassifiedState == TARGET_STATES[state_idx - 1]

RecordedAs(label) ==
    \E i \in 1..Len(states_failed) :
        states_failed[i] = ClassifiedState \o label

\* The request succeeded: some attempt was answered with a parsed payload.
Succeeded == ~NoneAnswered

\* C10: a state is recorded as "(failed)" exactly when its request failed
\* after all retries and as "(no data)" exactly when its request succeeded
\* and returned zero records; and when fetch_metric_multistate returns after
\* a fetch pass every target state has been fetched, recorded or not.
C10_FailedIffRequestFailed ==
    /\ Classified =>
          /\ RecordedAs(" (failed)") <=> NoneAnswered
          /\ RecordedAs(" (no data)") <=>
                (Succeeded /\ (data = None \/ Len(data.data) = 0))
    /\ (fm_pc = "returned" /\ state_idx > 0) =>
          Len(states_fetched) + Len(states_failed) = Len(TARGET_STATES)

\* fetch_metric_multistate has returned from a pass over TARGET_STATES.
ReturnedFromPass == fm_pc = "returned" /\ state_idx > Len(TARGET_STATES)

\* The rows of the states that returned records, in TARGET_STATES order.
RECURSIVE CollectedRows(_)
CollectedRows(n) ==
    IF n = 0 THEN <<>>
    ELSE CollectedRows(n - 1) \o all_states_data[n].rows

\* C12 as stated: after a pass over all target states the cache file of the
\* metric exists and holds the combined result, whatever the states gave.
C12_CacheFileAfterEveryPass ==
    ReturnedFromPass =>
        /\ cache[metric_name] # NoFile
        /\ cache[metric_name] = to_csv(fm_result)

\* C12 amended: after a pass in which at least one state returned records
\* the cache file exists and holds the combined rows, which the call
\* returns; after a pass in which no state returned records the call returns
\* the empty table and there is no cache file.
C12_CacheFileAfterPassWithRecords ==
    ReturnedFromPass =>
        IF states_fetched # <<>>
        THEN /\ fm_result =
                   DataFrame(FetchColumns,
                             CollectedRows(Len(all_states_data)))
             /\ Len(all_states_data) = Len(states_fetched)
             /\ cache[metric_name] # NoFile
             /\ cache[metric_name] = to_csv(fm_result)
        ELSE /\ fm_result = EmptyDataFrame
             /\ cache[metric_name] = NoFile

\* C12 witness: the first state failed after all retries, the second
\* returned a record, and the file holds that one row.
C12_Witness ==
    /\ ReturnedFromPass
    /\ states_failed = <<"OR (failed)">>
    /\ states_fetched = <<"WA">>
    /\ cache[metric_name] # NoFile
    /\ Len(cache[metric_name].lines) = 1
    /\ cache[metric_name].lines[1]["state_name"] = "WASHINGTON"

\* C20: between two attempts of one fetch_with_retry call RETRY_DELAY
\* seconds are slept, whatever the kind of the failed attempt, and nothing
\* is slept after the last attempt.
C20_FixedBackoff ==
    /\ (InRetryLoop /\ requests > 0) => slept = RETRY_DELAY
    /\ (FetchReturned /\ NoneAnswered) => slept = 0

(***************************************************************************)
(* A run of the script: main's loop over METRICS, each metric fetched by   *)
(* fetch_metric_multistate, then the merge, the cleaning, the rollup and   *)
(* the output file; and KeyboardInterrupt, caught at top level.            *)
(***************************************************************************)

\* The number of rows of a column that hold a value, and that hold none.
notna_sum(df, c) ==
    Cardinality({i \in 1..Len(df.rows) : df.rows[i][c] # NaN})

isna_sum(df, c) ==
    Cardinality({i \in 1..Len(df.rows) : df.rows[i][c] = NaN})

nunique(df, c) ==
    IF IsColumn(df, c)
    THEN Cardinality({df.rows[i][c] : i \in 1..Len(df.rows)})
    ELSE 0

\* df['state_name'].nunique() hashes the cells of the column and raises
\* TypeError for a list.
validate_data_raises(df) ==
    \/ has_unhashable(df, "state_name")
    \/ has_unhashable(df, "county_name")

validate_data(df, name) ==
    [metric |-> name,
     total_rows |-> Len(df.rows),
     unique_states |-> nunique(df, "state_name"),
     unique_counties |-> nunique(df, "county_name"),
     non_null_values |-> IF IsColumn(df, name) THEN notna_sum(df, name) ELSE 0,
     null_values |-> IF IsColumn(df, name) THEN isna_sum(df, name) ELSE 0,
     withheld_d_values |-> 0]

\* s.get('total_rows', 0)
get_total_rows(s) == IF "total_rows" \in DOMAIN s THEN s.total_rows ELSE 0

\* The locals of fetch_metric_multistate and fetch_with_retry are gone once
\* the call is over.
FetchOver ==
    /\ fm_pc' = "idle"
    /\ state_idx' = 0
    /\ attempt' = 0
    /\ requests' = 0
    /\ responses' = <<>>
    /\ data' = None
    /\ all_states_data' = <<>>
    /\ states_fetched' = <<>>
    /\ states_failed' = <<>>
    /\ fm_result' = NoResult
    /\ exception' = None

\* The position of main after the loop body for METRICS[idx].
AfterBody == IF idx = Len(METRICS) THEN "summary" ELSE "fetch"

InitRun ==
    /\ cache \in [MetricNames -> {NoFile, EarlierCacheFile}]
    /\ metric_name = ""
    /\ fm_pc = "idle"
    /\ state_idx = 0
    /\ attempt = 0
    /\ requests = 0
    /\ responses = <<>>
    /\ data = None
    /\ slept = 0
    /\ all_states_data = <<>>
    /\ states_fetched = <<>>
    /\ states_failed = <<>>
    /\ fm_result = NoResult
    /\ exception = None
    /\ calls = <<>>
    /\ idx = 1
    /\ fetch_stats = <<>>
    /\ dfs = <<>>
    /\ frames = <<>>
    /\ merged = <<>>
    /\ output = NoFile
    /\ pipe_pc = "fetch"
    /\ IdleReconcile

\* df = fetch_metric_multistate(desc, col_name, extra_params=extras)
CallFetch ==
    /\ pipe_pc = "fetch"
    /\ fm_pc = "idle"
    /\ metric_name' = METRICS[idx]
    /\ fm_pc' = "call"
    /\ UNCHANGED <<reconcileVars, pipelineVars, runVars, cache, state_idx,
                   attempt, requests, responses, data, slept,
                   all_states_data, states_fetched, states_failed,
                   fm_result, exception, calls>>

\* The rest of the try block: a table that is not empty is renamed and
\* appended to frames and its statistics to fetch_stats; an empty one is
\* recorded with 'total_rows': 0.
LoopBody ==
    /\ pipe_pc = "fetch"
    /\ fm_pc = "returned"
    /\ IsEmpty(fm_result) \/ ~validate_data_raises(fm_result)
    /\ LET col_name == METRICS[idx]
           df == fm_result
       IN  IF ~IsEmpty(df)
           THEN /\ frames' = Append(frames, rename(df, col_name))
                /\ fetch_stats' =
                      Append(fetch_stats,
                             validate_data(rename(df, col_name), col_name))
           ELSE /\ frames' = frames
                /\ fetch_stats' =
                      Append(fetch_stats,
                             [metric |-> col_name, total_rows |-> 0,
                              error |-> "No data"])
    /\ idx' = idx + 1
    /\ pipe_pc' = AfterBody
    /\ FetchOver
    /\ UNCHANGED <<reconcileVars, dfs, merged, output, metric_name, cache,
                   slept, calls>>

\* The try block when validate_data raises: the table has been appended to
\* frames, and except Exception appends the entry of a failed metric.
LoopBodyRaises ==
    /\ pipe_pc = "fetch"
    /\ fm_pc = "returned"
    /\ ~IsEmpty(fm_result)
    /\ validate_data_raises(fm_result)
    /\ frames' = Append(frames, rename(fm_result, METRICS[idx]))
    /\ fetch_stats' =
          Append(fetch_stats, [metric |-> METRICS[idx], error |-> "TypeError"])
    /\ idx' = idx + 1
    /\ pipe_pc' = AfterBody
    /\ FetchOver
    /\ UNCHANGED <<reconcileVars, dfs, merged, output, metric_name, cache,
                   slept, calls>>

\* The exception is recorded and ends the loop over METRICS.
except_ends_loop ==
    /\ pipe_pc = "fetch"
    /\ fm_pc = "raised"
    /\ fetch_stats' =
          Append(fetch_stats, [metric |-> METRICS[idx], error |-> exception])
    /\ idx' = idx + 1
    /\ pipe_pc' = "summary"
    /\ FetchOver
    /\ UNCHANGED <<reconcileVars, dfs, frames, merged, output, metric_name,
                   cache, slept, calls>>

\* except Exception as e: fetch_stats.append({'metric': ..., 'error': ...})
LoopExcept ==
    /\ pipe_pc = "fetch"
    /\ fm_pc = "raised"
    /\ fetch_stats' =
          Append(fetch_stats, [metric |-> METRICS[idx], error |-> exception])
    /\ idx' = idx + 1
    /\ pipe_pc' = AfterBody
    /\ FetchOver
    /\ UNCHANGED <<reconcileVars, dfs, frames, merged, output, metric_name,
                   cache, slept, calls>>

\* main is running: KeyboardInterrupt can be delivered.
Running == pipe_pc \in {"fetch", "summary", "clean", "rollup", "save"}

\* The process is over after except KeyboardInterrupt: only the files stay.
Interrupted ==
    /\ pipe_pc' = "interrupted"
    /\ frames' = <<>>
    /\ merged' = <<>>
    /\ idx' = 0
    /\ fetch_stats' = <<>>
    /\ metric_name' = ""
    /\ slept' = 0
    /\ calls' = <<>>
    /\ FetchOver
    /\ UNCHANGED <<reconcileVars, dfs>>

\* KeyboardInterrupt between two steps of the run.
Interrupt ==
    /\ Running
    /\ Interrupted
    /\ UNCHANGED <<cache, output>>

\* pd.merge raises in main: except Exception at top level logs the error
\* and raises it again, and the process is over.
MergeRaises ==
    /\ pipe_pc = "summary"
    /\ frames # <<>>
    /\ reduce_raises(frames)
    /\ pipe_pc' = "fatal"
    /\ frames' = <<>>
    /\ merged' = <<>>
    /\ idx' = 0
    /\ fetch_stats' = <<>>
    /\ metric_name' = ""
    /\ slept' = 0
    /\ calls' = <<>>
    /\ FetchOver
    /\ UNCHANGED <<reconcileVars, dfs, cache, output>>

\* What an interrupted to_csv leaves of a file: nothing of its text, its
\* header, or its header and some of its lines.
Truncated(file) ==
    {[header |-> <<>>, lines |-> <<>>]}
        \cup {[header |-> file.header, lines |-> SubSeq(file.lines, 1, k)] :
                 k \in 0..(Len(file.lines) - 1)}

\* KeyboardInterrupt while combined_df.to_csv(cache_file, index=False)
\* writes the cache file.
InterruptCacheWrite ==
    /\ pipe_pc = "fetch"
    /\ fm_pc = "state_loop"
    /\ state_idx > Len(TARGET_STATES)
    /\ all_states_data # <<>>
    /\ \E part \in Truncated(to_csv(concat(all_states_data))) :
          cache' = [cache EXCEPT ![metric_name] = part]
    /\ Interrupted
    /\ UNCHANGED output

\* KeyboardInterrupt while merged.to_csv(output_filename, index=False)
\* writes the output file.
InterruptOutputWrite ==
    /\ pipe_pc = "save"
    /\ \E k \in 0..(Len(merged.rows) - 1) :
          output' = [merged EXCEPT !.rows = SubSeq(merged.rows, 1, k)]
    /\ Interrupted
    /\ UNCHANGED cache

NextRun ==
    \/ CallFetch
    \/ (pipe_pc = "fetch" /\ CacheHit)
    \/ (pipe_pc = "fetch" /\ CacheMiss)
    \/ (pipe_pc = "fetch" /\ StartFetch)
    \/ (pipe_pc = "fetch" /\ RequestAnswered)
    \/ (pipe_pc = "fetch" /\ RequestFailed)
    \/ (pipe_pc = "fetch" /\ ClassifyRaises)
    \/ (pipe_pc = "fetch" /\ Classify)
    \/ (pipe_pc = "fetch" /\ Finish)
    \/ LoopBody
    \/ LoopBodyRaises
    \/ LoopExcept
    \/ Abort
    \/ MergeFrames
    \/ MergeRaises
    \/ Clean
    \/ Rollup
    \/ Save
    \/ Interrupt
    \/ InterruptCacheWrite
    \/ InterruptOutputWrite

SpecRun == InitRun /\ [][NextRun]_vars

(***************************************************************************)
(* Claims about a run (SpecRun).                                           *)
(***************************************************************************)

\* fetch_metric_multistate has been called and the cache file of its metric
\* exists.
CalledWithCacheFile == fm_pc = "call" /\ cache[metric_name] # NoFile

\* C11: a call of fetch_metric_multistate that finds the cache file of its
\* metric and is not interrupted issues no request, returns the table read
\* from the file and leaves the file as it is; and no step of a run writes
\* a cache file that exists.
C11_CacheHitLeavesFile ==
    [][ /\ (CalledWithCacheFile /\ pipe_pc' # "interrupted") =>
              /\ fm_pc' = "returned"
              /\ fm_result' = read_csv(cache[metric_name])
              /\ requests' = requests
              /\ calls' = calls
              /\ cache' = cache
        /\ \A m \in MetricNames :
              cache'[m] # cache[m] => cache[m] = NoFile ]_vars

\* C11 witness: in one run the first metric was loaded from the file an
\* earlier run left, without a request, and the second was fetched and its
\* file written.
C11_Witness ==
    /\ pipe_pc = "fetch"
    /\ fm_pc = "idle"
    /\ idx = 3
    /\ cache[METRICS[1]] = EarlierCacheFile
    /\ Len(frames) = 2
    /\ frames[1] = rename(read_csv(EarlierCacheFile), METRICS[1])
    /\ \A i \in 1..Len(calls) : calls[i][1] = METRICS[2]
    /\ cache[METRICS[2]] \notin {NoFile, EarlierCacheFile}
    /\ Len(cache[METRICS[2]].lines) = Len(frames[2].rows)

\* main is past its loop over METRICS.
AfterLoop == pipe_pc \in {"summary", "clean", "rollup", "save", "done"}

\* A fetch_stats entry the summary counts under "Failed/No data".
CountedFailed(s) == get_total_rows(s) = 0

\* fetch_stats holds one entry for each of the first n metrics, in order.
OneEntryPerMetric(n) ==
    /\ Len(fetch_stats) = n
    /\ \A i \in 1..n : fetch_stats[i].metric = METRICS[i]

\* C13: an exception raised while a metric is processed, by the fetch or
\* by validate_data, is caught, the metric is recorded in fetch_stats as
\* failed and the loop goes on with the next metric; in the loop fetch_stats holds one entry per metric processed
\* and after it one entry per metric of METRICS, in order.
C13_ExceptionIsolatedToMetric ==
    /\ [](pipe_pc = "fetch" => OneEntryPerMetric(idx - 1))
    /\ [](AfterLoop => OneEntryPerMetric(Len(METRICS)))
    /\ [][ (fm_pc = "raised" /\ pipe_pc' # "interrupted") =>
              /\ Len(fetch_stats') = Len(fetch_stats) + 1
              /\ fetch_stats'[idx].metric = METRICS[idx]
              /\ fetch_stats'[idx].error = exception
              /\ CountedFailed(fetch_stats'[idx])
              /\ frames' = frames
              /\ idx' = idx + 1
              /\ pipe_pc' = IF idx < Len(METRICS) THEN "fetch" ELSE "summary"
              /\ fm_pc' = "idle" ]_vars
    /\ [][ (fm_pc = "returned" /\ pipe_pc = "fetch"
                /\ ~IsEmpty(fm_result) /\ validate_data_raises(fm_result)
                /\ pipe_pc' # "interrupted") =>
              /\ Len(fetch_stats') = Len(fetch_stats) + 1
              /\ fetch_stats'[idx].metric = METRICS[idx]
              /\ CountedFailed(fetch_stats'[idx])
              /\ idx' = idx + 1
              /\ pipe_pc' = IF idx < Len(METRICS) THEN "fetch" ELSE "summary"
              /\ fm_pc' = "idle" ]_vars

\* C13 witness: the first metric raised KeyError, the second was fetched
\* with rows, and the loop has ended with three entries.
C13_Witness ==
    /\ pipe_pc = "summary"
    /\ Len(fetch_stats) = 3
    /\ "total_rows" \notin DOMAIN fetch_stats[1]
    /\ fetch_stats[1].error = "KeyError"
    /\ get_total_rows(fetch_stats[2]) > 0

\* main has returned.
RunEnded == pipe_pc = "done"

\* C14: a run in which no metric produced a table with rows returns from
\* the summary without merging and without writing the output file; the
\* output file is written only by the save step of a run with frames; and a
\* run with at least one metric's table, whatever became of the other
\* metrics, goes on from the summary to the merge and, when it has ended,
\* has written the output file.
C14_OutputOnlyWithData ==
    /\ [][ (pipe_pc = "summary" /\ frames = <<>>
                /\ pipe_pc' # "interrupted") =>
              /\ pipe_pc' = "done"
              /\ merged' = merged
              /\ output' = output ]_vars
    /\ [][ output' # output =>
              /\ pipe_pc = "save"
              /\ frames # <<>> ]_vars
    /\ [][ (pipe_pc = "summary" /\ frames # <<>>
                /\ pipe_pc' # "interrupted") =>
              pipe_pc' = "clean" ]_vars
    /\ [](RunEnded =>
              /\ Len(frames) <= Len(fetch_stats)
              /\ frames = <<>> => (merged = <<>> /\ output = NoFile)
              /\ frames # <<>> => (output # NoFile /\ output = merged))

\* The cache file fetch_metric_multistate is about to write, whole.
WholeCacheFile == to_csv(concat(all_states_data))

\* C15: a KeyboardInterrupt delivered at any point of a run ends the run at
\* top level and leaves every cache file and the output file either as it
\* was before its write began or written whole.
C15_InterruptLeavesFilesWhole ==
    [][ (Running /\ pipe_pc' = "interrupted") =>
            /\ \A m \in MetricNames :
                  \/ cache'[m] = cache[m]
                  \/ cache'[m] = WholeCacheFile
            /\ \/ output' = output
               \/ output' = merged ]_vars

\* The position of a metric in METRICS and of a state in TARGET_STATES.
MetricIndex(m) == CHOOSE i \in 1..Len(METRICS) : METRICS[i] = m

StateIndex(st) == CHOOSE i \in 1..Len(TARGET_STATES) : TARGET_STATES[i] = st

\* Call c comes before call d in metric-then-state order.
Before(c, d) ==
    \/ MetricIndex(c[1]) < MetricIndex(d[1])
    \/ /\ c[1] = d[1]
       /\ StateIndex(c[2]) < StateIndex(d[2])

\* The calls of fetch_with_retry so far were made in metric-then-state
\* order, none twice.
CallsInOrder ==
    \A i \in 1..(Len(calls) - 1) : Before(calls[i], calls[i + 1])

\* The states fetch_with_retry was called for on behalf of a metric.
StatesCalled(m) == {calls[i][2] : i \in {j \in 1..Len(calls) : calls[j][1] = m}}

\* The cache file of the metric was there when the run began.
CachedBefore(m) == cache[m] = EarlierCacheFile

\* Processing of the i-th metric raised.
Raised(i) == "total_rows" \notin DOMAIN fetch_stats[i]

\* A state whose every attempt failed is recorded as "(failed)".
FailedStateCounted ==
    (pipe_pc = "fetch" /\ Classified /\ NoneAnswered) =>
        RecordedAs(" (failed)")

\* C18 as stated: the calls are made in metric-then-state order, and at the
\* end of the loop fetch_with_retry was called once for every target state
\* of every metric that had no cache file, and for no other; a state that
\* failed after all retries is recorded as failed and the loop goes on.
C18_EveryStateOfEveryMetric ==
    /\ pipe_pc \in {"fetch", "summary"} => CallsInOrder
    /\ FailedStateCounted
    /\ pipe_pc = "summary" =>
          \A i \in 1..Len(METRICS) :
             StatesCalled(METRICS[i]) =
                IF CachedBefore(METRICS[i]) THEN {}
                ELSE SeqToSet(TARGET_STATES)

\* C18 amended: as stated for every metric whose processing raised no
\* exception; for a metric whose processing raised, fetch_with_retry was
\* called once for each target state up to the one at which the exception
\* was raised and for none after it.
C18_FetchOrderAndCoverage ==
    /\ pipe_pc \in {"fetch", "summary"} => CallsInOrder
    /\ FailedStateCounted
    /\ pipe_pc = "summary" =>
          \A i \in 1..Len(METRICS) :
             LET called == StatesCalled(METRICS[i])
             IN  IF CachedBefore(METRICS[i]) THEN called = {}
                 ELSE IF Raised(i)
                 THEN \E k \in 1..Len(TARGET_STATES) :
                         called = {TARGET_STATES[n] : n \in 1..k}
                 ELSE called = SeqToSet(TARGET_STATES)

\* C18 witness: the second metric is being fetched after the first; its
\* first state failed after all retries and is recorded as failed, and its
\* second state was fetched after that.
C18_Witness ==
    /\ pipe_pc = "fetch"
    /\ Classified
    /\ state_idx = 3
    /\ calls = << <<METRICS[1], "OR">>, <<METRICS[1], "WA">>,
                  <<METRICS[2], "OR">>, <<METRICS[2], "WA">> >>
    /\ states_failed = <<"OR (failed)">>
    /\ states_fetched = <<"WA">>

\* An HTTP request was issued earlier in the run.
RequestedBefore == requests > 0 \/ Len(calls) > 1

\* C19: when a request is issued after an earlier request of the run, a
\* delay (a backoff or the pacing sleep) has been slept since that earlier
\* request.
C19_DelayBetweenRequests ==
    [][ (requests' = requests + 1 /\ RequestedBefore) => slept > 0 ]_vars

\* The table of the metric was appended to frames.
InFrames(m) == \E i \in 1..Len(frames) : IsColumn(frames[i], m)

\* The entries the summary counts under "Successfully fetched".
successful == {i \in 1..Len(fetch_stats) : get_total_rows(fetch_stats[i]) > 0}

\* C21: at the end of main's loop a metric is counted as successfully
\* fetched exactly when its table is one of the frames, and the number of
\* metrics so counted is the number of frames.
C21_SuccessfulIffInFrames ==
    pipe_pc = "summary" =>
        /\ \A i \in 1..Len(fetch_stats) :
              i \in successful <=> InFrames(fetch_stats[i].metric)
        /\ Cardinality(successful) = Len(frames)

====
